---- MODULE Spec2Model ----
(***************************************************************************)
(* A model of ContentModerationBot (src/bot.py): the content filter, the   *)
(* knowledge matcher over the Q:/A: document, the learning sheet with its  *)
(* duplicate check, and the message handler that composes them.            *)
(*                                                                         *)
(* A Python str is modelled as a sequence of one-character strings, so     *)
(* that lower(), strip(), split(), startswith(), "in" and the regular      *)
(* expressions are computed character by character as Python does.         *)
(***************************************************************************)
EXTENDS Naturals, Integers, Sequences, FiniteSets, TLC

VARIABLES
    corpus,     \* full text of the knowledge document (a str)
    written,    \* ghost: the (question, answer) pairs add_to_knowledge_doc wrote
    sheet,      \* rows of the learning sheet, each <<phrase, context, timestamp>>
    last,       \* record of the most recently completed call
    calls       \* in-flight save_to_learning_sheet calls, by caller

vars == <<corpus, written, sheet, last, calls>>

-----------------------------------------------------------------------------
(* Python str primitives                                                    *)

LowerLetters ==
    <<"a","b","c","d","e","f","g","h","i","j","k","l","m","n","o","p","q","r","s","t","u","v","w","x","y","z">>

UpperLetters ==
    <<"A","B","C","D","E","F","G","H","I","J","K","L","M","N","O","P","Q","R","S","T","U","V","W","X","Y","Z">>

Digits == {"0","1","2","3","4","5","6","7","8","9"}

Range(s) == { s[i] : i \in DOMAIN s }

\* the lowercase letter of each uppercase letter
LowerOf ==
    [c \in Range(UpperLetters) |->
        LowerLetters[CHOOSE i \in DOMAIN UpperLetters : UpperLetters[i] = c]]

\* str.lower() on one character
LowerChar(c) == IF c \in DOMAIN LowerOf THEN LowerOf[c] ELSE c

\* str.lower()
Lower(s) == [i \in DOMAIN s |-> LowerChar(s[i])]

\* the characters str.strip(), str.split() and the regex class \s treat as space
IsSpace(c) == c \in {" ", "\t", "\n", "\r"}

WordChars == Range(LowerLetters) \cup Range(UpperLetters) \cup Digits \cup {"_"}

\* the regex class \w
IsWordChar(c) == c \in WordChars

RECURSIVE LStrip(_)
LStrip(s) == IF s # <<>> /\ IsSpace(Head(s)) THEN LStrip(Tail(s)) ELSE s

RECURSIVE RStrip(_)
RStrip(s) ==
    IF s # <<>> /\ IsSpace(s[Len(s)]) THEN RStrip(SubSeq(s, 1, Len(s) - 1)) ELSE s

\* str.strip()
Strip(s) == RStrip(LStrip(s))

\* s.startswith(p)
StartsWith(s, p) == Len(s) >= Len(p) /\ SubSeq(s, 1, Len(p)) = p

\* sub occurs in s at offset i (0-based)
OccursAt(s, sub, i) == i + Len(sub) <= Len(s) /\ SubSeq(s, i + 1, i + Len(sub)) = sub

\* the Python expression "sub in s" on two str
Contains(s, sub) == \E i \in 0..Len(s) : OccursAt(s, sub, i)

\* s.split(sep) for a one-character separator: the fields, empty ones kept
RECURSIVE SplitOn(_, _)
SplitOn(s, sep) ==
    IF \A i \in DOMAIN s : s[i] # sep
    THEN <<s>>
    ELSE LET k == CHOOSE i \in DOMAIN s : s[i] = sep /\ \A j \in 1..(i - 1) : s[j] # sep
         IN  <<SubSeq(s, 1, k - 1)>> \o SplitOn(SubSeq(s, k + 1, Len(s)), sep)

\* s.split(): the maximal runs of non-space characters
RECURSIVE SplitWords(_)
SplitWords(s) ==
    LET t == LStrip(s)
    IN  IF t = <<>>
        THEN <<>>
        ELSE LET n == IF \E i \in DOMAIN t : IsSpace(t[i])
                      THEN (CHOOSE i \in DOMAIN t :
                                IsSpace(t[i]) /\ \A j \in 1..(i - 1) : ~IsSpace(t[j])) - 1
                      ELSE Len(t)
             IN  <<SubSeq(t, 1, n)>> \o SplitWords(SubSeq(t, n + 1, Len(t)))

\* all str of length at most n over the characters of alphabet
StringsUpTo(alphabet, n) == UNION { [1..k -> alphabet] : k \in 0..n }

-----------------------------------------------------------------------------
(* ContentFilter                                                            *)

\* load_negative_words: the default list
load_negative_words ==
    { <<"h","a","t","e">>, <<"s","t","u","p","i","d">>, <<"i","d","i","o","t">>,
      <<"m","o","r","o","n">>, <<"r","e","t","a","r","d">>, <<"s","h","i","t">>,
      <<"f","u","c","k">>, <<"a","s","s","h","o","l","e">>,
      <<"b","a","s","t","a","r","d">>, <<"b","i","t","c","h">>, <<"c","u","n","t">>,
      <<"d","a","m","n">>, <<"h","e","l","l">>, <<"d","u","m","b">>,
      <<"l","o","s","e","r">>, <<"f","u","c","k","i","n","g">>, <<"a","s","s">>,
      <<"d","i","c","k">>, <<"p","i","s","s">>, <<"c","o","c","k">>,
      <<"p","u","s","s","y">>, <<"f","a","g">>, <<"f","a","g","g","o","t">>,
      <<"w","h","o","r","e">>, <<"s","l","u","t">>, <<"n","i","g","g","e","r">>,
      <<"n","i","g","g","a">>, <<"c","h","i","n","k">>, <<"s","p","i","c">>,
      <<"k","i","k","e">>, <<"t","e","r","r","o","r","i","s","t">> }

\* self.negative_words, fixed at construction
negative_words == load_negative_words

\* the regex assertion \b at offset p of s (between s[p] and s[p+1])
WordBoundary(s, p) ==
    (p >= 1 /\ IsWordChar(s[p])) # (p < Len(s) /\ IsWordChar(s[p + 1]))

\* re.search(r'\b' + re.escape(word) + r'\b', s); the words are letters only,
\* which re.escape leaves as they are
SearchWholeWord(word, s) ==
    \E i \in 0..Len(s) :
        /\ OccursAt(s, word, i)
        /\ WordBoundary(s, i)
        /\ WordBoundary(s, i + Len(word))

\* a plausible slip: the word searched for without the \b anchors
check_negative_content_substring(text) ==
    \E word \in negative_words : Contains(Lower(text), word)

check_negative_content(text) ==
    LET text_lower == Lower(text)
    IN  \E word \in negative_words : SearchWholeWord(word, text_lower)

-----------------------------------------------------------------------------
(* Specification of the filter alone: any text over FilterAlphabet          *)

MaxTextLen == 5

FilterAlphabet == {"a", "s", "A", "c", " ", "_"}

Idle == [op |-> "none"]

InitFilter ==
    /\ corpus = <<"\n">>
    /\ written = <<>>
    /\ sheet = <<>>
    /\ calls = <<>>
    /\ \E text \in StringsUpTo(FilterAlphabet, MaxTextLen) :
            last = [op |-> "text", text |-> text]

ClassifyText ==
    /\ last.op = "text"
    /\ last' = [op |-> "check_negative_content", text |-> last.text,
                flagged |-> check_negative_content(last.text)]
    /\ UNCHANGED <<corpus, written, sheet, calls>>

NextFilter == ClassifyText

SpecFilter == InitFilter /\ [][NextFilter]_vars

\* the maximal runs of word characters of s
RECURSIVE WordTokens(_)
WordTokens(s) ==
    IF s = <<>> THEN {}
    ELSE IF ~IsWordChar(Head(s)) THEN WordTokens(Tail(s))
    ELSE LET n == IF \E i \in DOMAIN s : ~IsWordChar(s[i])
                  THEN (CHOOSE i \in DOMAIN s :
                            ~IsWordChar(s[i]) /\ \A j \in 1..(i - 1) : IsWordChar(s[j])) - 1
                  ELSE Len(s)
         IN  {SubSeq(s, 1, n)} \cup WordTokens(SubSeq(s, n + 1, Len(s)))

\* C6: a text is flagged if and only if one of its whole words (a maximal run
\* of word characters), lowercased, is a blocklist word; so a blocklist word
\* inside a longer word, a text without blocklist words and the empty text
\* are clean.
C6_FlaggedIffWholeWord ==
    last.op = "check_negative_content" =>
        (last.flagged <=>
            \E tok \in WordTokens(last.text) : Lower(tok) \in load_negative_words)

\* a whole-word, mixed-case occurrence is flagged
C6_Witness ==
    /\ last.op = "check_negative_content"
    /\ last.text = <<" ", "A", "s", "s", " ">>
    /\ last.flagged

-----------------------------------------------------------------------------
(* KnowledgeMatcher                                                         *)

\* the reply for a query without a match (line 127)
UnknownReply ==
    <<"I"," ","d","o","n","'","t"," ","h","a","v","e"," ","i","n","f","o","r","m","a","t","i","o","n"," ","a","b","o","u","t"," ","t","h","a","t"," ","y","e","t","."," ","I","'","l","l"," ","s","a","v","e"," ","i","t"," ","t","o"," ","l","e","a","r","n"," ","m","o","r","e",".">>

\* the reply when the document cannot be read (line 131)
UnavailableReply ==
    <<"S","o","r","r","y",","," ","I","'","m"," ","h","a","v","i","n","g"," ","t","r","o","u","b","l","e"," ","a","c","c","e","s","s","i","n","g"," ","m","y"," ","k","n","o","w","l","e","d","g","e"," ","b","a","s","e"," ","r","i","g","h","t"," ","n","o","w",".">>

QMarker == <<"Q", ":">>
AMarker == <<"A", ":">>

\* Python truthiness of a str (None is carried as a flag beside the str)
Truthy(s) == s # <<>>

\* the parser's state before the first line: no pairs, both currents None
ParseStart ==
    [qa_pairs |-> <<>>, current_question |-> <<>>, question_none |-> TRUE,
     current_answer |-> <<>>, answer_none |-> TRUE]

\* one iteration of the loop over full_text.split('\n') (lines 96-106)
ParseLine(st, raw) ==
    LET line == Strip(raw)
    IN  IF StartsWith(line, QMarker)
        THEN [qa_pairs |->
                 IF /\ ~st.question_none /\ Truthy(st.current_question)
                    /\ ~st.answer_none /\ Truthy(st.current_answer)
                 THEN Append(st.qa_pairs, <<st.current_question, st.current_answer>>)
                 ELSE st.qa_pairs,
              current_question |-> Strip(SubSeq(line, 3, Len(line))),
              question_none |-> FALSE,
              current_answer |-> <<>>,
              answer_none |-> FALSE]
        ELSE IF StartsWith(line, AMarker)
                /\ ~st.question_none /\ Truthy(st.current_question)
        THEN [st EXCEPT !.current_answer = Strip(SubSeq(line, 3, Len(line))),
                        !.answer_none = FALSE]
        ELSE IF ~st.question_none /\ Truthy(st.current_question) /\ ~st.answer_none
        THEN [st EXCEPT !.current_answer = st.current_answer \o <<" ">> \o line]
        ELSE st

RECURSIVE ParseLines(_, _)
ParseLines(st, lines) ==
    IF lines = <<>> THEN st ELSE ParseLines(ParseLine(st, Head(lines)), Tail(lines))

\* lines 92-109: the (question, answer) pairs of the document text
ParseQA(full_text) ==
    LET st == ParseLines(ParseStart, SplitOn(full_text, "\n"))
    IN  IF /\ ~st.question_none /\ Truthy(st.current_question)
           /\ ~st.answer_none /\ Truthy(st.current_answer)
        THEN Append(st.qa_pairs, <<st.current_question, st.current_answer>>)
        ELSE st.qa_pairs

\* line 119: the number of words of the query that occur in the question
Score(query_lower, question) ==
    LET question_lower == Lower(question)
        words == SplitWords(query_lower)
    IN  Cardinality({ i \in DOMAIN words : Contains(question_lower, words[i]) })

\* a plausible slip: >= in the comparison, so that a later tie replaces the best
BetterScore_orEqual(score, best_score) == score >= best_score

\* line 120: the comparison that replaces the best match
BetterScore(score, best_score) == score > best_score

\* lines 113-122: best_match (None as a flag) and best_score after the loop
RECURSIVE BestMatch(_, _, _)
BestMatch(best, query_lower, qa_pairs) ==
    IF qa_pairs = <<>>
    THEN best
    ELSE LET score == Score(query_lower, Head(qa_pairs)[1])
         IN  BestMatch(IF BetterScore(score, best.best_score)
                       THEN [best_match |-> Head(qa_pairs)[2], match_none |-> FALSE,
                             best_score |-> score]
                       ELSE best,
                       query_lower, Tail(qa_pairs))

\* line 124: the number of matching words an answer needs
MinScore == 2

\* Levenshtein distance of two str
RECURSIVE EditDistance(_, _)
EditDistance(a, b) ==
    IF a = <<>> THEN Len(b)
    ELSE IF b = <<>> THEN Len(a)
    ELSE LET sub == EditDistance(Tail(a), Tail(b)) + (IF Head(a) = Head(b) THEN 0 ELSE 1)
             del == EditDistance(Tail(a), b) + 1
             ins == EditDistance(a, Tail(b)) + 1
         IN  IF sub <= del /\ sub <= ins THEN sub
             ELSE IF del <= ins THEN del ELSE ins

\* the similarity of two str is at least 0.6: 1 - distance / longer length
Similar(a, b) ==
    LET m == IF Len(a) >= Len(b) THEN Len(a) ELSE Len(b)
    IN  m = 0 \/ 10 * (m - EditDistance(a, b)) >= 6 * m

\* a is strictly closer to q than b is (similarities compared as fractions)
Closer(q, a, b) ==
    LET ma == IF Len(a) >= Len(q) THEN Len(a) ELSE Len(q)
        mb == IF Len(b) >= Len(q) THEN Len(b) ELSE Len(q)
    IN  (IF ma = 0 THEN 0 ELSE EditDistance(q, a) * (IF mb = 0 THEN 1 ELSE mb))
          < (IF mb = 0 THEN 0 ELSE EditDistance(q, b) * (IF ma = 0 THEN 1 ELSE ma))

\* the questions of qa_pairs that are similar to the query, none closer
MostSimilar(query_lower, qa_pairs) ==
    { i \in DOMAIN qa_pairs :
        /\ Similar(query_lower, Lower(qa_pairs[i][1]))
        /\ \A j \in DOMAIN qa_pairs :
              ~Closer(query_lower, Lower(qa_pairs[j][1]), Lower(qa_pairs[i][1])) }

\* the matcher with a fuzzy pass after the overlap pass, which the code lacks
get_knowledge_response_fuzzy(query, full_text, fetch_fails) ==
    IF fetch_fails
    THEN [outcome |-> "Unavailable", response |-> UnavailableReply]
    ELSE LET qa_pairs == ParseQA(full_text)
             best == BestMatch([best_match |-> <<>>, match_none |-> TRUE, best_score |-> 0],
                               Lower(query), qa_pairs)
             fuzzy == MostSimilar(Lower(query), qa_pairs)
         IN  IF ~best.match_none /\ Truthy(best.best_match) /\ best.best_score >= 2
             THEN [outcome |-> "Answer", response |-> best.best_match]
             ELSE IF fuzzy # {}
             THEN [outcome |-> "Answer",
                   response |-> qa_pairs[CHOOSE i \in fuzzy : \A j \in fuzzy : i <= j][2]]
             ELSE [outcome |-> "Unknown", response |-> UnknownReply]

\* get_knowledge_response (lines 76-131). fetch_fails: the document request
\* raises. outcome names the return statement taken; the caller sees response.
get_knowledge_response(query, full_text, fetch_fails) ==
    IF fetch_fails
    THEN [outcome |-> "Unavailable", response |-> UnavailableReply]
    ELSE LET qa_pairs == ParseQA(full_text)
             best == BestMatch([best_match |-> <<>>, match_none |-> TRUE, best_score |-> 0],
                               Lower(query), qa_pairs)
         IN  IF ~best.match_none /\ Truthy(best.best_match) /\ best.best_score >= MinScore
             THEN [outcome |-> "Answer", response |-> best.best_match]
             ELSE [outcome |-> "Unknown", response |-> UnknownReply]

\* line 155: the text add_to_knowledge_doc inserts
NewContent(question, answer) ==
    <<"\n">> \o QMarker \o <<" ">> \o question \o <<"\n">>
             \o AMarker \o <<" ">> \o answer \o <<"\n">>

\* add_to_knowledge_doc (lines 151-184): the text is inserted at endIndex - 1,
\* before the newline that ends every document; a failed request changes nothing
add_to_knowledge_doc(doc, question, answer, request_fails) ==
    IF request_fails
    THEN [ok |-> FALSE, doc |-> doc]
    ELSE [ok |-> TRUE,
          doc |-> SubSeq(doc, 1, Len(doc) - 1) \o NewContent(question, answer)
                    \o <<doc[Len(doc)]>>]

-----------------------------------------------------------------------------
(* Specification of the matcher: a document built by add_to_knowledge_doc,  *)
(* queried with any text over QueryAlphabet                                 *)

MaxEntries == 2

MaxQueryLen == 3

QueryAlphabet == {"a", "A", "b", " "}

\* the (question, answer) pairs the model writes
KnowledgePairs ==
    { << <<"a", " ", "b">>, <<"x">> >>,
      << <<"b", "a">>, <<"y">> >>,
      << <<"A">>, <<"x", " ", "y">> >>,
      << <<>>, <<"y">> >>,
      << <<" ", "b">>, <<>> >> }

\* a new document holds one newline
EmptyDoc == <<"\n">>

InitMatch ==
    /\ corpus = EmptyDoc
    /\ written = <<>>
    /\ sheet = <<>>
    /\ calls = <<>>
    /\ last = Idle

AddKnowledge ==
    /\ Len(written) < MaxEntries
    /\ \E pair \in KnowledgePairs, request_fails \in BOOLEAN :
        LET r == add_to_knowledge_doc(corpus, pair[1], pair[2], request_fails)
        IN  /\ corpus' = r.doc
            /\ written' = IF r.ok THEN Append(written, pair) ELSE written
            /\ last' = [op |-> "add_to_knowledge_doc", ok |-> r.ok]
    /\ UNCHANGED <<sheet, calls>>

\* a query reads the document and leaves it as it is, so asking again right
\* after a query reaches no document that was not asked about already
AskKnowledge ==
    /\ last.op # "get_knowledge_response"
    /\ \E query \in StringsUpTo(QueryAlphabet, MaxQueryLen), fetch_fails \in BOOLEAN :
        LET r == get_knowledge_response(query, corpus, fetch_fails)
        IN  last' = [op |-> "get_knowledge_response", query |-> query,
                     outcome |-> r.outcome, response |-> r.response]
    /\ UNCHANGED <<corpus, written, sheet, calls>>

NextMatch == AddKnowledge \/ AskKnowledge

SpecMatch == InitMatch /\ [][NextMatch]_vars

\* the parsed pairs and their overlap counts in the state after a query
Asked == last.op = "get_knowledge_response" /\ last.outcome # "Unavailable"

Entries == ParseQA(corpus)

Overlap(i) == Score(Lower(last.query), Entries[i][1])

Qualifying == { i \in DOMAIN Entries : Overlap(i) >= 2 }

\* C7: the answer returned is that of the question with the highest count of
\* query words occurring in it, the first such question in document order on
\* a tie, and only when that count is at least 2; otherwise the reply is the
\* fixed unknown text.
C7_BestOverlapFirstWins ==
    Asked =>
        IF Qualifying = {}
        THEN last.outcome = "Unknown" /\ last.response = UnknownReply
        ELSE /\ last.outcome = "Answer"
             /\ \E i \in Qualifying :
                    /\ \A j \in DOMAIN Entries : Overlap(j) <= Overlap(i)
                    /\ \A j \in 1..(i - 1) : Overlap(j) < Overlap(i)
                    /\ last.response = Entries[i][2]

\* two questions tie at the highest count and the first one's answer is returned
C7_Witness ==
    /\ Asked
    /\ \E i, j \in Qualifying :
          /\ i < j
          /\ Overlap(i) = Overlap(j)
          /\ Strip(Entries[i][2]) # Strip(Entries[j][2])
          /\ last.response = Entries[i][2]

\* no question qualifies in the overlap pass, and some question is similar
FuzzyCase ==
    /\ Asked
    /\ Qualifying = {}
    /\ MostSimilar(Lower(last.query), Entries) # {}

\* C8 as stated: with no qualifying overlap and a question of similarity at
\* least 0.6, the answer of the most similar question is returned.
C8_FuzzyFallback ==
    FuzzyCase =>
        \E i \in MostSimilar(Lower(last.query), Entries) : last.response = Entries[i][2]

\* C8 amended: with no qualifying overlap the reply is the fixed unknown text,
\* however similar a question is to the query; there is no fuzzy pass.
C8_NoFuzzyFallback ==
    FuzzyCase => last.outcome = "Unknown" /\ last.response = UnknownReply

\* a query equal to a question but for its case, answered with the unknown text
C8_Witness ==
    /\ FuzzyCase
    /\ \E i \in DOMAIN Entries : Lower(Entries[i][1]) = Lower(last.query)
    /\ last.response = UnknownReply

\* C10: every pair written by add_to_knowledge_doc is parsed back as exactly
\* one pair, in order, with the same question and answer up to surrounding
\* whitespace.
C10_RoundTrip ==
    /\ Len(Entries) = Len(written)
    /\ \A i \in DOMAIN Entries :
          /\ i \in DOMAIN written
          /\ Strip(Entries[i][1]) = Strip(written[i][1])
          /\ Strip(Entries[i][2]) = Strip(written[i][2])

-----------------------------------------------------------------------------
(* LearningQueue                                                            *)

\* str(datetime.datetime.now()): written to the row and never read back
Timestamp == "timestamp"

\* line 143: the row appended for a phrase
LearningRow(phrase, context) == <<phrase, context, Timestamp>>

\* line 140: the lowercased first fields of the non-empty rows
ExistingPhrases(existing_data) ==
    { Lower(existing_data[i][1]) : i \in { k \in DOMAIN existing_data : existing_data[k] # <<>> } }

\* a plausible slip: the comparison without lower()
IsNewPhrase_caseSensitive(phrase, existing_data) ==
    phrase \notin { existing_data[i][1] : i \in { k \in DOMAIN existing_data : existing_data[k] # <<>> } }

\* line 142: the phrase is in none of the rows read
IsNewPhrase(phrase, existing_data) == Lower(phrase) \notin ExistingPhrases(existing_data)

\* a plausible slip: no try/except, so a failure of the sheet escapes the call
save_to_learning_sheet_uncaught(rows, phrase, context, fault) ==
    IF fault \in {"sheet_fetch", "sheet_append"}
    THEN [rows |-> rows, raised |-> TRUE,
          events |-> IF fault = "sheet_fetch"
                     THEN << [call |-> "get_all_values"] >>
                     ELSE IF IsNewPhrase(phrase, rows)
                     THEN << [call |-> "get_all_values"],
                             [call |-> "append_row", row |-> LearningRow(phrase, context)] >>
                     ELSE << [call |-> "get_all_values"] >>]
    ELSE IF IsNewPhrase(phrase, rows)
    THEN [rows |-> Append(rows, LearningRow(phrase, context)), raised |-> FALSE,
          events |-> << [call |-> "get_all_values"],
                        [call |-> "append_row", row |-> LearningRow(phrase, context)] >>]
    ELSE [rows |-> rows, raised |-> FALSE, events |-> << [call |-> "get_all_values"] >>]

\* save_to_learning_sheet (lines 133-149), run without interruption: the rows
\* are read, the phrase is compared and the row appended. fault names the
\* request that raises, if any; the except clause logs it and returns.
\* events are the requests made to the sheet, in order.
save_to_learning_sheet(rows, phrase, context, fault) ==
    IF fault = "sheet_fetch"
    THEN [rows |-> rows, raised |-> FALSE, events |-> << [call |-> "get_all_values"] >>]
    ELSE IF IsNewPhrase(phrase, rows)
    THEN [rows |-> IF fault = "sheet_append" THEN rows
                   ELSE Append(rows, LearningRow(phrase, context)),
          raised |-> FALSE,
          events |-> << [call |-> "get_all_values"],
                        [call |-> "append_row", row |-> LearningRow(phrase, context)] >>]
    ELSE [rows |-> rows, raised |-> FALSE, events |-> << [call |-> "get_all_values"] >>]

\* no two rows hold the same phrase, ignoring case
NoDuplicatePhrases(rows) ==
    \A i, j \in DOMAIN rows :
        (i # j /\ rows[i] # <<>> /\ rows[j] # <<>>) => Lower(rows[i][1]) # Lower(rows[j][1])

-----------------------------------------------------------------------------
(* Specification of the learning sheet with calls that run one at a time    *)

MaxRows == 2

\* the phrases the model saves
Phrases ==
    { <<"h", "i">>, <<"H", "I">>, <<"H", "i">>, <<"y", "o">>, <<"Y", "o">>, <<>> }

SheetFaults == {"none", "sheet_fetch", "sheet_append"}

\* the sheets the model starts from: empty, one blank row, one stored phrase
InitialSheets ==
    { <<>>, << <<>> >>, << LearningRow(<<"H", "i">>, "curated") >> }

InitSheet ==
    /\ corpus = EmptyDoc
    /\ written = <<>>
    /\ sheet \in InitialSheets
    /\ last = Idle
    /\ calls = <<>>

SavePhrase ==
    /\ Len(sheet) < MaxRows
    /\ \E phrase \in Phrases, fault \in SheetFaults :
        LET r == save_to_learning_sheet(sheet, phrase, "context", fault)
        IN  /\ sheet' = r.rows
            /\ last' = [op |-> "save_to_learning_sheet", phrase |-> phrase,
                        fault |-> fault, rows_before |-> sheet, raised |-> r.raised]
    /\ UNCHANGED <<corpus, written, calls>>

NextSheet == SavePhrase

SpecSheet == InitSheet /\ [][NextSheet]_vars

\* C3: with calls that run one at a time, the sheet never holds two rows
\* whose phrases are equal ignoring case, and a call whose phrase is already
\* stored, in any case, appends nothing.
C3_NoDuplicateRows ==
    /\ NoDuplicatePhrases(sheet)
    /\ (last.op = "save_to_learning_sheet"
          /\ \E i \in DOMAIN last.rows_before :
                /\ last.rows_before[i] # <<>>
                /\ Lower(last.rows_before[i][1]) = Lower(last.phrase))
       => sheet = last.rows_before

\* a call whose phrase is stored in another letter case left the sheet as it was
C3_Witness ==
    /\ last.op = "save_to_learning_sheet"
    /\ last.fault = "none"
    /\ \E i \in DOMAIN last.rows_before :
          /\ last.rows_before[i] # <<>>
          /\ last.rows_before[i][1] # last.phrase
          /\ Lower(last.rows_before[i][1]) = Lower(last.phrase)
    /\ sheet = last.rows_before

-----------------------------------------------------------------------------
(* Specification of overlapping save_to_learning_sheet calls: each call     *)
(* reads the rows (line 139) and later compares and appends (lines 140-143) *)

NumCallers == 2

Callers == 1..NumCallers

ConcurrentPhrases == { <<"h", "i">>, <<"H", "I">>, <<"y", "o">> }

InitConc ==
    /\ corpus = EmptyDoc
    /\ written = <<>>
    /\ sheet \in InitialSheets
    /\ last = Idle
    /\ calls = [c \in Callers |-> [pc |-> "start", phrase |-> <<>>, existing_data |-> <<>>,
                                   appended |-> FALSE]]

\* a plausible slip the other way: the comparison made on the rows as they are
\* when the row is appended, as a compare-and-append of the store would
CheckedRows_atAppend(existing_data, rows) == rows

\* lines 139-142: the comparison is made on the rows read at line 139
CheckedRows(existing_data, rows) == existing_data

\* line 139: existing_data = sheet.get_all_values()
FetchRows(c) ==
    /\ calls[c].pc = "start"
    /\ \E phrase \in ConcurrentPhrases :
          calls' = [calls EXCEPT ![c] = [pc |-> "fetched", phrase |-> phrase,
                                         existing_data |-> sheet, appended |-> FALSE]]
    /\ UNCHANGED <<corpus, written, sheet, last>>

\* lines 140-146: compare, and append the row if the phrase is new
CheckAndAppend(c) ==
    /\ calls[c].pc = "fetched"
    /\ LET new == IsNewPhrase(calls[c].phrase, CheckedRows(calls[c].existing_data, sheet))
       IN  /\ sheet' = IF new THEN Append(sheet, LearningRow(calls[c].phrase, "context"))
                       ELSE sheet
           /\ calls' = [calls EXCEPT ![c].pc = "done", ![c].appended = new]
    /\ UNCHANGED <<corpus, written, last>>

NextConc == \E c \in Callers : FetchRows(c) \/ CheckAndAppend(c)

SpecConc == InitConc /\ [][NextConc]_vars

\* the finished calls for a phrase (ignoring case) that read rows without it
FinishedOnFreshRows(p) ==
    { c \in Callers :
        /\ calls[c].pc = "done"
        /\ Lower(calls[c].phrase) = p
        /\ IsNewPhrase(calls[c].phrase, calls[c].existing_data) }

RowsWithPhrase(p) == { i \in DOMAIN sheet : sheet[i] # <<>> /\ Lower(sheet[i][1]) = p }

\* C4: the check and the append are not atomic: every call that read rows
\* without its phrase appends a row, whatever was appended since it read, so
\* overlapping calls for one new phrase each leave a row.
C4_EveryFreshReaderAppends ==
    \A p \in { Lower(q) : q \in ConcurrentPhrases } :
        Cardinality(RowsWithPhrase(p)) >= Cardinality(FinishedOnFreshRows(p))

\* two calls for the same new phrase both read rows without it and both appended
C4_Witness ==
    \E c, d \in Callers :
        /\ c # d
        /\ calls[c].phrase = calls[d].phrase
        /\ {c, d} \subseteq FinishedOnFreshRows(Lower(calls[c].phrase))
        /\ Cardinality(RowsWithPhrase(Lower(calls[c].phrase))) >= 2
        /\ ~NoDuplicatePhrases(sheet)

-----------------------------------------------------------------------------
(* handle_message                                                           *)

\* context.bot.username, set by the bot's token
BotUsername == <<"b", "o", "t">>

\* context.bot.name: python-telegram-bot returns the username with "@" before it
BotName == <<"@">> \o BotUsername

\* context.bot.id and the ids of the other parties
BotId == "bot"
UserId == "user"
GroupChatId == "group"

\* the substring that the reply is tested for at line 218
UnknownMarker ==
    <<"I"," ","d","o","n","'","t"," ","h","a","v","e"," ","i","n","f","o","r","m","a","t","i","o","n">>

\* the length of the whitespace run of s that starts at offset i (the regex \s*)
RECURSIVE SpaceRun(_, _)
SpaceRun(s, i) == IF i < Len(s) /\ IsSpace(s[i + 1]) THEN 1 + SpaceRun(s, i + 1) ELSE 0

\* re.sub(literal + r'\s*', '', s, flags=re.IGNORECASE) for a literal without
\* regex metacharacters: every occurrence, left to right, removed with the
\* whitespace after it
RECURSIVE RemoveWithSpaces(_, _)
RemoveWithSpaces(literal, s) ==
    IF s = <<>> THEN <<>>
    ELSE IF OccursAt(Lower(s), Lower(literal), 0)
    THEN LET n == Len(literal) + SpaceRun(s, Len(literal))
         IN  RemoveWithSpaces(literal, SubSeq(s, n + 1, Len(s)))
    ELSE <<Head(s)>> \o RemoveWithSpaces(literal, Tail(s))

\* line 211: the pattern is '@' + context.bot.name + '\s*'
ExtractQuery(text) == Strip(RemoveWithSpaces(<<"@">> \o BotName, text))

\* line 209: the bot is mentioned, or the chat is private
Addressed(message) ==
    Contains(Lower(message.text), Lower(BotName)) \/ message.chat_type = "private"

\* line 219: the context column of the row
SaveContext(message) == <<"User", message.from_user, "Chat", message.chat_id>>

\* lines 197-206: the warning and the deletion. fault "reply" or "delete": the
\* request raises and the exception leaves the handler
FlaggedBranch(message, fault) ==
    IF fault = "reply"
    THEN [events |-> << [call |-> "reply_html", user |-> message.from_user] >>,
          raised |-> TRUE]
    ELSE [events |-> << [call |-> "reply_html", user |-> message.from_user],
                        [call |-> "delete"] >>,
          raised |-> fault = "delete"]

\* lines 209-219: the query, the reply and the learning row
AnswerBranch(message, rows, full_text, fault) ==
    LET query == ExtractQuery(message.text)
    IN  IF ~Truthy(query)
        THEN [events |-> <<>>, rows |-> rows, raised |-> FALSE, outcome |-> "None"]
        ELSE LET r == get_knowledge_response(query, full_text, fault = "doc")
                 said == << [call |-> "get_knowledge_response", query |-> query],
                            [call |-> "reply_text", text |-> r.response] >>
             IN  IF fault = "reply"
                 THEN [events |-> said, rows |-> rows, raised |-> TRUE,
                       outcome |-> r.outcome]
                 ELSE IF Contains(r.response, UnknownMarker)
                 THEN LET saved == save_to_learning_sheet(rows, query,
                                                          SaveContext(message), fault)
                      IN  [events |-> said
                               \o << [call |-> "save_to_learning_sheet", phrase |-> query] >>
                               \o saved.events,
                           rows |-> saved.rows, raised |-> saved.raised,
                           outcome |-> r.outcome]
                 ELSE [events |-> said, rows |-> rows, raised |-> FALSE,
                       outcome |-> r.outcome]

Nothing(rows) == [events |-> <<>>, rows |-> rows, raised |-> FALSE, outcome |-> "None"]

\* a plausible slip: "if" for "elif" at line 209, so that a flagged message
\* goes on to the knowledge base
handle_message_fallthrough(message, rows, full_text, fault) ==
    IF message.is_none \/ ~Truthy(message.text) \/ message.from_user = BotId
    THEN Nothing(rows)
    ELSE LET a == IF Addressed(message)
                  THEN AnswerBranch(message, rows, full_text, fault)
                  ELSE Nothing(rows)
         IN  IF check_negative_content(message.text)
             THEN LET f == FlaggedBranch(message, fault)
                  IN  IF f.raised
                      THEN [events |-> f.events, rows |-> rows, raised |-> TRUE,
                            outcome |-> "None"]
                      ELSE [a EXCEPT !.events = f.events \o a.events]
             ELSE a

\* handle_message (lines 186-219): the requests made, in order, the rows of
\* the sheet afterwards, whether an exception left the handler, and the
\* matcher's outcome ("None" when it was not called)
handle_message(message, rows, full_text, fault) ==
    IF message.is_none \/ ~Truthy(message.text)
    THEN Nothing(rows)
    ELSE IF message.from_user = BotId
    THEN Nothing(rows)
    ELSE IF check_negative_content(message.text)
    THEN LET f == FlaggedBranch(message, fault)
         IN  [events |-> f.events, rows |-> rows, raised |-> f.raised, outcome |-> "None"]
    ELSE IF Addressed(message)
    THEN AnswerBranch(message, rows, full_text, fault)
    ELSE Nothing(rows)

-----------------------------------------------------------------------------
(* Specification of the bot: messages handled one after another             *)

\* the texts of the messages the model delivers
MessageTexts ==
    { <<>>,
      <<"i","d","i","o","t">>,
      <<"@","b","o","t"," ","i","d","i","o","t">>,
      <<"w","h","a","t"," ","i","s"," ","x">>,
      <<"@","B","O","T"," ","w","h","a","t"," ","i","s"," ","x">>,
      <<"r","e","f","u","n","d"," ","p","o","l","i","c","y">>,
      <<"h","e","l","l","o">>,
      <<"@","b","o","t">>,
      <<"@","@","b","o","t"," ">> }

NoMessage ==
    [is_none |-> TRUE, text |-> <<>>, from_user |-> UserId, chat_type |-> "private",
     chat_id |-> UserId]

BotMessage ==
    [is_none |-> FALSE, text |-> <<"h","e","l","l","o">>, from_user |-> BotId,
     chat_type |-> "group", chat_id |-> GroupChatId]

Messages ==
    {NoMessage, BotMessage} \cup
    { [is_none |-> FALSE, text |-> t, from_user |-> UserId, chat_type |-> k,
       chat_id |-> IF k = "private" THEN UserId ELSE GroupChatId] :
        t \in MessageTexts, k \in {"private", "group"} }

Faults == {"none", "doc", "sheet_fetch", "sheet_append", "reply", "delete"}

\* the knowledge document of the model: two pairs added by add_to_knowledge_doc
KnowledgeDoc ==
    LET one == add_to_knowledge_doc(EmptyDoc,
                   <<"W","h","a","t"," ","i","s"," ","X","?">>,
                   <<"X"," ","i","s"," ","Y",".">>, FALSE).doc
    IN  add_to_knowledge_doc(one,
            <<"r","e","f","u","n","d"," ","p","o","l","i","c","y">>,
            UnknownMarker \o <<" ","o","n"," ","r","e","f","u","n","d","s",".">>,
            FALSE).doc

Init ==
    /\ corpus = KnowledgeDoc
    /\ written = <<>>
    /\ sheet = <<>>
    /\ last = Idle
    /\ calls = <<>>

\* the dispatcher takes an update from the queue (one at a time in the model)
DeliverUpdate ==
    /\ last.op # "update"
    /\ \E message \in Messages : last' = [op |-> "update", message |-> message]
    /\ UNCHANGED <<corpus, written, sheet, calls>>

\* and calls handle_message on it
HandleMessage ==
    /\ last.op = "update"
    /\ \E fault \in Faults :
        LET r == handle_message(last.message, sheet, corpus, fault)
        IN  /\ sheet' = r.rows
            /\ last' = [op |-> "handle_message", message |-> last.message,
                        fault |-> fault, events |-> r.events, raised |-> r.raised,
                        outcome |-> r.outcome, rows_before |-> sheet]
    /\ UNCHANGED <<corpus, written, calls>>

Next == DeliverUpdate \/ HandleMessage

Spec == Init /\ [][Next]_vars

\* the state after handle_message returned (or raised) for a message
Handled == last.op = "handle_message"

\* the positions in the handler's requests of the calls named
CallsOf(names) == { i \in DOMAIN last.events : last.events[i].call \in names }

\* C1: for a message that the filter flags, the matcher and the learning
\* sheet are never called, whatever the chat and whether or not the bot is
\* addressed: the only requests are the warning and then the deletion.
C1_FlaggedStopsProcessing ==
    (Handled /\ ~last.message.is_none /\ check_negative_content(last.message.text)) =>
        /\ CallsOf({"get_knowledge_response", "reply_text", "save_to_learning_sheet",
                    "get_all_values", "append_row"}) = {}
        /\ sheet = last.rows_before
        /\ last.outcome = "None"
        /\ \/ last.events = <<>>
           \/ last.events = << [call |-> "reply_html", user |-> last.message.from_user] >>
           \/ last.events = << [call |-> "reply_html", user |-> last.message.from_user],
                               [call |-> "delete"] >>
        /\ (last.message.from_user # BotId /\ last.fault # "reply")
              => Len(last.events) = 2

\* a flagged group message that addresses the bot: warned, deleted, no more
C1_Witness ==
    /\ Handled
    /\ check_negative_content(last.message.text)
    /\ last.message.chat_type = "group"
    /\ Contains(Lower(last.message.text), Lower(BotName))
    /\ Len(last.events) = 2
    /\ last.events[2].call = "delete"

\* C2: a learning row is appended for a message only if the matcher's
\* outcome was Unknown; not when it was an answer from the document, whatever
\* its text, nor when the document could not be read.
C2_RowOnlyIfUnknown ==
    Handled =>
        /\ (sheet # last.rows_before \/ CallsOf({"append_row"}) # {})
              => last.outcome = "Unknown"
        /\ last.outcome \in {"Answer", "Unavailable"}
              => CallsOf({"save_to_learning_sheet"}) = {}

\* C5: a failure of the learning sheet neither blocks nor alters the reply
\* and does not leave handle_message: for a query whose outcome is Unknown
\* the one reply is the same whether the sheet works or fails, it is sent
\* before the sheet is touched, the handler returns normally and a failed
\* call appends no row.
C5_SheetFailureIsHarmless ==
    (Handled /\ last.outcome = "Unknown" /\ last.fault # "reply") =>
        /\ Cardinality(CallsOf({"reply_text", "reply_html"})) = 1
        /\ \A i \in CallsOf({"reply_text", "reply_html"}) :
              /\ last.events[i] = [call |-> "reply_text", text |-> UnknownReply]
              /\ \A j \in CallsOf({"save_to_learning_sheet", "get_all_values",
                                   "append_row"}) : i < j
        /\ CallsOf({"get_all_values"}) # {}
        /\ ~last.raised
        /\ last.fault \in {"sheet_fetch", "sheet_append"} => sheet = last.rows_before

\* the append request failed after the reply: no row, no exception
C5_Witness ==
    /\ Handled
    /\ last.outcome = "Unknown"
    /\ last.fault = "sheet_append"
    /\ CallsOf({"append_row"}) # {}
    /\ CallsOf({"reply_text"}) # {}
    /\ sheet = last.rows_before
    /\ ~last.raised

\* C9: for a clean message that is private or addresses the bot, the query
\* is the text with the bot's address token (and the whitespace after it)
\* removed, ignoring case; when nothing but whitespace remains, the matcher
\* is not called, no reply is sent and no row is appended.
C9_TokenStrippedEmptyShortCircuits ==
    (/\ Handled
     /\ ~last.message.is_none /\ Truthy(last.message.text)
     /\ last.message.from_user # BotId
     /\ ~check_negative_content(last.message.text)
     /\ Addressed(last.message)) =>
        LET query == Strip(RemoveWithSpaces(BotName, last.message.text))
        IN  IF query = <<>>
            THEN last.events = <<>> /\ sheet = last.rows_before
            ELSE /\ last.events # <<>>
                 /\ last.events[1] = [call |-> "get_knowledge_response", query |-> query]

====
